---- MODULE Spec2Model ----
(***************************************************************************)
(* A model of the discovery layer of the test-equipment library:           *)
(*   - the mDNS packet codec of MDNS.py (encode_name, decode_name,         *)
(*     decode_answer, decode_answer_data, encode_mdns,                     *)
(*     extract_mdns_answer),                                               *)
(*   - the mDNS collect loop MDNS.query / MDNS._listen_for,                *)
(*   - the broadcast scan SCPI.broadcast_search and the device scans       *)
(*     find_devices built on it,                                           *)
(*   - the transport of SCPI.py: from_uri and a SocketSCPI session,        *)
(*   - the wave builder SDG2000Wave and the channel selection of IT6300.   *)
(*                                                                         *)
(* Conventions.  A byte is a number in 0..255 and a bytes object a         *)
(* sequence of bytes; Python's 0-based offset o is element o+1 of the      *)
(* sequence.  A str is a sequence of Unicode code points.  A call that can *)
(* raise returns a record whose field kind is "value", "None", "raise"     *)
(* (exc names the exception) or "hang" (the call never returns).           *)
(* Time is counted in integer ticks; it passes only while a receive        *)
(* blocks, the computation between two receives takes no tick.             *)
(***************************************************************************)
EXTENDS Integers, Sequences, FiniteSets, TLC

VARIABLES
    component,   \* which part of the library this behaviour exercises
    op,          \* codec: the function being called ("idle" between calls)
    args,        \* codec: its arguments
    ret,         \* codec: its result
    lpc,         \* _listen_for: position in the method
    lname,       \* _listen_for: name argument
    ltype,       \* _listen_for: type argument
    timeout,     \* _listen_for: timeout argument
    limit,       \* _listen_for: limit argument
    start,       \* _listen_for: start = time.time() at entry
    remaining,   \* _listen_for: remaining
    results,     \* _listen_for: results
    sock_timeout,\* the multicast socket's timeout (settimeout)
    now,         \* the wall clock read by time.time()
    sent,        \* datagrams sent on the multicast socket
    lhist,       \* history: the datagrams received by the current query
    bpc,         \* broadcast_search: position in the generator
    btimeout,    \* broadcast_search: timeout argument (the socket's timeout)
    bnow,        \* the wall clock of the broadcast scan
    bsent,       \* the time of the sendto
    yielded,     \* the (data, address) pairs the generator has yielded
    arrived,     \* history: the replies the socket received, in arrival order
    fpc,         \* find_devices: position in the method
    fprefix,     \* find_devices: the URI prefix of the instrument family
    fmax,        \* find_devices: max_devices argument
    fresults,    \* find_devices: results
    fhist,       \* history: the replies the scan's loop has taken
    spc,         \* SocketSCPI session: position in query()
    s_is_tcp,    \* SocketSCPI.is_tcp
    wire,        \* the reply frames sent to the socket and not yet received
    payload,     \* read_bytes: payload
    qlog,        \* history: the queries made on the session
    bswv,        \* SDG2000Wave._bswv, in insertion order
    commands,    \* SDG2000Wave._commands, in insertion order
    wsent,       \* the channel commands sent by the latest submit()
    wcalls,      \* the number of calls made on the builder object
    selected_channel, \* IT6300.selected_channel
    inst_channel,\* the channel selected in the instrument
    inst_volts,  \* the voltage set on each channel of the instrument
    clast        \* history: the latest call on the IT6300 and its outcome

vars == <<component, op, args, ret, lpc, lname, ltype, timeout, limit, start,
          remaining, results, sock_timeout, now, sent, lhist,
          bpc, btimeout, bnow, bsent, yielded, arrived,
          fpc, fprefix, fmax, fresults, fhist,
          spc, s_is_tcp, wire, payload, qlog,
          bswv, commands, wsent, wcalls,
          selected_channel, inst_channel, inst_volts, clast>>

codecVars == <<op, args, ret>>
listenVars == <<lpc, lname, ltype, timeout, limit, start, remaining, results,
                sock_timeout, now, sent, lhist>>
broadcastVars == <<bpc, btimeout, bnow, bsent, yielded, arrived>>
findVars == <<fpc, fprefix, fmax, fresults, fhist>>
sessionVars == <<spc, s_is_tcp, wire, payload, qlog>>
waveVars == <<bswv, commands, wsent, wcalls>>
channelVars == <<selected_channel, inst_channel, inst_volts, clast>>
driverVars == <<findVars, sessionVars, waveVars, channelVars>>

----------------------------------------------------------------------------
(* Bounds of the model.                                                    *)

\* Longest short name drawn for encode_name / encode_mdns, in characters.
MaxNameLen == 3
\* Length of the long label drawn beside the short names.
LongLabelLen == 63
\* Longest raw buffer drawn for decode_name, in bytes.
MaxBufLen == 4
\* Most answers in a generated response packet.
MaxAnswers == 2
\* Most answers in a response packet that is then truncated.
MaxTruncAnswers == 1
\* Most questions in a list given to encode_mdns.
MaxQuestions == 2
\* Junk bytes before a name in a compression packet (the name's offset K).
MaxPad == 2
\* Junk bytes between the name and the pointer in a compression packet.
MaxGap == 1
\* Largest timeout given to MDNS.query, in ticks.
MaxTimeout == 3
\* Largest limit given to MDNS.query.
MaxLimit == 2
\* Latest clock reading at which a query or a scan starts.
MaxStart == 1
\* Most datagrams the multicast socket receives during one query.
MaxDatagrams == 3
\* Largest timeout given to broadcast_search, in ticks.
MaxScanTimeout == 2
\* Most replies the broadcast socket receives during one scan.
MaxReplies == 3

----------------------------------------------------------------------------
(* Program constants: MDNS.py lines 7-16.                                  *)

RECORD_A == 1
RECORD_TXT == 16
RECORD_PTR == 12
RECORD_SRV == 33
FLAG_RESPONSE == 32768
FLAG_AUTHORITIVE == 1024
CLASS_IN == 1
CLASS_UNICAST_REQ == 32768

----------------------------------------------------------------------------
(* Python built-ins the codec uses.                                        *)

Dot == 46

\* buffer[lo:hi]: a slice is cut to the buffer, it never raises
Slice(buffer, lo, hi) ==
    LET h == IF hi > Len(buffer) THEN Len(buffer) ELSE hi
    IN  IF lo >= h THEN <<>> ELSE [i \in 1..(h - lo) |-> buffer[lo + i]]

RECURSIVE Concat(_)
\* b''.join(parts)
Concat(parts) ==
    IF parts = <<>> THEN <<>> ELSE Head(parts) \o Concat(Tail(parts))

RECURSIVE Join(_, _)
\* sep.join(parts)
Join(sep, parts) ==
    IF parts = <<>> THEN <<>>
    ELSE IF Len(parts) = 1 THEN parts[1]
    ELSE parts[1] \o sep \o Join(sep, Tail(parts))

\* s.split(sep) for a one-character separator: the parts between the
\* separators, always at least one part
Split(s, sep) ==
    LET cuts == {i \in 1..Len(s) : s[i] = sep} \cup {0, Len(s) + 1}
        \* the k-th cut, counted from 0
        Cut(k) == CHOOSE x \in cuts : Cardinality({y \in cuts : y < x}) = k
    IN  [k \in 1..(Cardinality(cuts) - 1) |->
           [i \in 1..(Cut(k) - Cut(k - 1) - 1) |-> s[Cut(k - 1) + i]]]

RECURSIVE Digits(_)
\* str(n) for an int n >= 0
Digits(n) ==
    IF n < 10 THEN <<48 + n>> ELSE Digits(n \div 10) \o <<48 + (n % 10)>>

HexDigit(d) == IF d < 10 THEN 48 + d ELSE 87 + d

\* one byte of repr(bytes) inside the quote character q
ReprByte(b, q) ==
    IF b = q \/ b = 92 THEN <<92, b>>
    ELSE IF b = 9 THEN <<92, 116>>
    ELSE IF b = 10 THEN <<92, 110>>
    ELSE IF b = 13 THEN <<92, 114>>
    ELSE IF b < 32 \/ b >= 127 THEN <<92, 120, HexDigit(b \div 16), HexDigit(b % 16)>>
    ELSE <<b>>

\* str(b) of a bytes object: its repr, b'...' (b"..." when it holds ' and no ")
BytesStr(b) ==
    LET hasS == \E i \in 1..Len(b) : b[i] = 39
        hasD == \E i \in 1..Len(b) : b[i] = 34
        q == IF hasS /\ ~hasD THEN 34 ELSE 39
    IN  <<98, q>> \o Concat([i \in 1..Len(b) |-> ReprByte(b[i], q)]) \o <<q>>

IsCont(b, i) == i <= Len(b) /\ b[i] >= 128 /\ b[i] <= 191

\* The length of the UTF-8 sequence that starts at b[i], 0 when it is invalid.
Utf8SeqLen(b, i) ==
    LET c == b[i]
        b1 == IF i + 1 <= Len(b) THEN b[i + 1] ELSE 0
    IN  IF c < 128 THEN 1
        ELSE IF c >= 194 /\ c <= 223
            THEN IF IsCont(b, i + 1) THEN 2 ELSE 0
        ELSE IF c >= 224 /\ c <= 239
            THEN IF /\ IsCont(b, i + 1) /\ IsCont(b, i + 2)
                    /\ (c = 224 => b1 >= 160)
                    /\ (c = 237 => b1 <= 159)
                 THEN 3 ELSE 0
        ELSE IF c >= 240 /\ c <= 244
            THEN IF /\ IsCont(b, i + 1) /\ IsCont(b, i + 2) /\ IsCont(b, i + 3)
                    /\ (c = 240 => b1 >= 144)
                    /\ (c = 244 => b1 <= 143)
                 THEN 4 ELSE 0
        ELSE 0

Utf8CodePoint(b, i, n) ==
    IF n = 1 THEN b[i]
    ELSE IF n = 2 THEN (b[i] - 192) * 64 + (b[i + 1] - 128)
    ELSE IF n = 3 THEN (b[i] - 224) * 4096 + (b[i + 1] - 128) * 64 + (b[i + 2] - 128)
    ELSE (b[i] - 240) * 262144 + (b[i + 1] - 128) * 4096
         + (b[i + 2] - 128) * 64 + (b[i + 3] - 128)

RECURSIVE Utf8DecodeFrom(_, _)
Utf8DecodeFrom(b, i) ==
    IF i > Len(b) THEN [ok |-> TRUE, s |-> <<>>]
    ELSE LET n == Utf8SeqLen(b, i)
         IN  IF n = 0 THEN [ok |-> FALSE, s |-> <<>>]
             ELSE LET rest == Utf8DecodeFrom(b, i + n)
                  IN  [ok |-> rest.ok,
                       s |-> <<Utf8CodePoint(b, i, n)>> \o rest.s]

\* bytes.decode(): strict UTF-8; ok is FALSE for UnicodeDecodeError.  Bytes that
\* are all ASCII decode to themselves, which Utf8DecodeFrom finds one by one.
BytesDecode(b) ==
    IF \A i \in 1..Len(b) : b[i] < 128 THEN [ok |-> TRUE, s |-> b]
    ELSE Utf8DecodeFrom(b, 1)

\* one character of str.encode() (UTF-8); no surrogate is ever drawn
Utf8EncodeChar(c) ==
    IF c < 128 THEN <<c>>
    ELSE IF c < 2048 THEN <<192 + (c \div 64), 128 + (c % 64)>>
    ELSE IF c < 65536
        THEN <<224 + (c \div 4096), 128 + ((c \div 64) % 64), 128 + (c % 64)>>
    ELSE <<240 + (c \div 262144), 128 + ((c \div 4096) % 64),
           128 + ((c \div 64) % 64), 128 + (c % 64)>>

\* str.encode(): an ASCII string encodes to itself, as Utf8EncodeChar says
\* character by character
StrEncode(s) ==
    IF \A i \in 1..Len(s) : s[i] < 128 THEN s
    ELSE Concat([i \in 1..Len(s) |-> Utf8EncodeChar(s[i])])

\* struct.pack("!H", n) for 0 <= n < 65536
U16(n) == <<n \div 256, n % 256>>

\* struct.unpack_from("!H", buffer, offset), the buffer long enough
U16At(buffer, offset) == buffer[offset + 1] * 256 + buffer[offset + 2]

----------------------------------------------------------------------------
(* Results.                                                                *)

Value(v) == [kind |-> "value", value |-> v, exc |-> ""]
NoneResult == [kind |-> "None", value |-> <<>>, exc |-> ""]
Raise(e) == [kind |-> "raise", value |-> <<>>, exc |-> e]
Hang == [kind |-> "hang", value |-> <<>>, exc |-> ""]

----------------------------------------------------------------------------
(* MDNS.py: encode_name.                                                   *)

\* struct.pack('B', len(label)) + label.encode()   (line 25)
EncodeLabel(label) == <<Len(label)>> \o StrEncode(label)

\* encode_name without line 26: no end marker
NoTerminator == <<>>

\* buffer += b'\x00'   (line 26)
NameTerminator == <<0>>

encode_name(name) ==
    LET labels == Split(name, Dot)
    IN  IF \E i \in 1..Len(labels) : Len(labels[i]) > 255
        THEN Raise("struct.error")
        ELSE Value(Concat([i \in 1..Len(labels) |-> EncodeLabel(labels[i])])
                   \o NameTerminator)

----------------------------------------------------------------------------
(* MDNS.py: decode_name.                                                   *)

NameResult(n, o) == [kind |-> "value", name |-> n, offset |-> o, exc |-> ""]
NameRaise(e) == [kind |-> "raise", name |-> <<>>, offset |-> 0, exc |-> e]
NameHang == [kind |-> "hang", name |-> <<>>, offset |-> 0, exc |-> ""]

\* (length & 0xC0) == 0xC0   (line 40): the top two bits of the byte are set
IsPointer(length) == length \div 64 = 3

\* ((length & 0x3F) << 8) | buffer[offset]   (line 45)
PointerTarget(length, low) == (length % 64) * 256 + low

\* lines 42-44: only the first pointer sets end_offset
EndOffset(jumped, end_offset, offset) ==
    IF ~jumped THEN offset + 1 ELSE end_offset

\* decode_name without lines 51-53: the offset the loop ended at
ReturnOffsetAfterJump(jumped, end_offset, offset) == offset

\* lines 51-54: the offset returned
ReturnOffset(jumped, end_offset, offset) ==
    IF jumped THEN end_offset ELSE offset

RECURSIVE DecodeNameLoop(_, _, _, _, _, _)
\* The while loop of lines 34-49, entered with these locals.  seen holds the
\* offsets the loop was entered with: the loop's next offset depends on the
\* offset alone, so entering it twice with one offset is a loop that never ends.
DecodeNameLoop(buffer, offset, labels, jumped, end_offset, seen) ==
    IF offset \in seen THEN NameHang
    ELSE IF offset >= Len(buffer) THEN NameRaise("IndexError")
    ELSE
      LET length == buffer[offset + 1]
          off1 == offset + 1
      IN  IF length = 0
          THEN NameResult(Join(<<Dot>>, labels),
                          ReturnOffset(jumped, end_offset, off1))
          ELSE IF IsPointer(length)
          THEN IF off1 >= Len(buffer) THEN NameRaise("IndexError")
               ELSE DecodeNameLoop(buffer,
                                   PointerTarget(length, buffer[off1 + 1]),
                                   labels, TRUE,
                                   EndOffset(jumped, end_offset, off1),
                                   seen \cup {offset})
          ELSE LET label == BytesDecode(Slice(buffer, off1, off1 + length))
               IN  IF ~label.ok THEN NameRaise("UnicodeDecodeError")
                   ELSE DecodeNameLoop(buffer, off1 + length,
                                       Append(labels, label.s),
                                       jumped, end_offset, seen \cup {offset})

decode_name(buffer, offset) ==
    DecodeNameLoop(buffer, offset, <<>>, FALSE, 0, {})

----------------------------------------------------------------------------
(* MDNS.py: encode_question, encode_mdns.                                  *)

\* encode_question with CLASS_IN alone
QuestionClassNoUnicast == CLASS_IN

\* CLASS_IN | CLASS_UNICAST_REQ   (line 60): the two masks share no bit
QuestionClass == CLASS_IN + CLASS_UNICAST_REQ

encode_question(name, record_type) ==
    LET n == encode_name(name)
    IN  IF n.kind # "value" THEN n
        ELSE Value(n.value \o U16(record_type) \o U16(QuestionClass))

\* struct.pack("!6H", 0, 0, len(questions), 0, 0, 0)   (lines 84-91)
QueryHeader(questions) ==
    U16(0) \o U16(0) \o U16(Len(questions)) \o U16(0) \o U16(0) \o U16(0)

RECURSIVE EncodeQuestions(_, _)
\* the for loop of lines 92-93 from question i on
EncodeQuestions(questions, i) ==
    IF i > Len(questions) THEN Value(<<>>)
    ELSE LET q == encode_question(questions[i][1], questions[i][2])
         IN  IF q.kind # "value" THEN q
             ELSE LET rest == EncodeQuestions(questions, i + 1)
                  IN  IF rest.kind # "value" THEN rest
                      ELSE Value(q.value \o rest.value)

encode_mdns(questions) ==
    LET body == EncodeQuestions(questions, 1)
    IN  IF body.kind # "value" THEN body
        ELSE Value(QueryHeader(questions) \o body.value)

----------------------------------------------------------------------------
(* MDNS.py: decode_answer, decode_answer_data, extract_mdns_answer.        *)

\* struct.calcsize("!HHIH")   (lines 66-67)
AnswerFixedSize == 10

\* struct.calcsize("!6H")   (lines 99, 104)
HeaderSize == 12

decode_answer_data(packet, offset, len, type) ==
    IF type = RECORD_A
    THEN LET b == Slice(packet, offset, offset + len)
         IN  Value(Join(<<Dot>>, [i \in 1..Len(b) |-> Digits(b[i])]))
    ELSE IF type = RECORD_PTR
    THEN LET n == decode_name(packet, offset)
         IN  IF n.kind = "value" THEN Value(n.name)
             ELSE IF n.kind = "hang" THEN Hang ELSE Raise(n.exc)
    ELSE IF type = RECORD_SRV
    THEN Value(BytesStr(Slice(packet, offset, offset + len)))
    ELSE LET t == BytesDecode(Slice(packet, offset, offset + len))
         IN  IF t.ok THEN Value(t.s) ELSE Raise("UnicodeDecodeError")

AnswerResult(n, t, d, l, o) ==
    [kind |-> "value", name |-> n, type |-> t, data_offset |-> d, len |-> l,
     offset |-> o, exc |-> ""]
AnswerFail(k, e) ==
    [kind |-> k, name |-> <<>>, type |-> 0, data_offset |-> 0, len |-> 0,
     offset |-> 0, exc |-> e]

\* The decoder of line 68 is the pair (data_offset, len) with the type: calling
\* it is decode_answer_data(packet, data_offset, len, type).
decode_answer(packet, offset) ==
    LET n == decode_name(packet, offset)
    IN  IF n.kind # "value" THEN AnswerFail(n.kind, n.exc)
        ELSE IF Len(packet) - n.offset < AnswerFixedSize
        THEN AnswerFail("raise", "struct.error")
        ELSE LET type == U16At(packet, n.offset)
                 len == U16At(packet, n.offset + 8)
             IN  AnswerResult(n.name, type, n.offset + AnswerFixedSize, len,
                              n.offset + AnswerFixedSize + len)

\* name == "*"   (line 107)
Star == <<42>>

\* line 101 without the test of the question count
NotAnAnswerByFlag(flags, questions) == (flags \div FLAG_RESPONSE) % 2 = 0

\* line 101: the packets that are not a response to look into
NotAnAnswer(flags, questions) ==
    questions # 0 \/ (flags \div FLAG_RESPONSE) % 2 = 0

\* line 107 without the comparison of the names
AnswerMatchesByType(atype, aname, name, type) == atype = type

\* line 107
AnswerMatches(atype, aname, name, type) ==
    atype = type /\ (name = Star \/ aname = name)

\* The result of extract_mdns_answer with what it did on the way: walked is the
\* number of decode_answer calls, decoded the data offsets the decoder was
\* called for.
Extracted(r, walked, decoded) ==
    [kind |-> r.kind, value |-> r.value, exc |-> r.exc,
     walked |-> walked, decoded |-> decoded]

\* except struct.error: return None   (lines 110-111)
Caught(r) == IF r.kind = "raise" /\ r.exc = "struct.error" THEN NoneResult ELSE r

RECURSIVE ExtractLoop(_, _, _, _, _, _)
\* the for loop of lines 105-108 with `left` answers to go
ExtractLoop(packet, name, type, offset, left, walked) ==
    IF left = 0 THEN Extracted(NoneResult, walked, {})
    ELSE LET a == decode_answer(packet, offset)
         IN  IF a.kind # "value"
             THEN Extracted(Caught([kind |-> a.kind, value |-> <<>>, exc |-> a.exc]),
                            walked + 1, {})
             ELSE IF AnswerMatches(a.type, a.name, name, type)
             THEN Extracted(Caught(decode_answer_data(packet, a.data_offset,
                                                      a.len, a.type)),
                            walked + 1, {a.data_offset})
             ELSE ExtractLoop(packet, name, type, a.offset, left - 1, walked + 1)

extract_mdns_answer(packet, name, type) ==
    IF Len(packet) < HeaderSize THEN Extracted(NoneResult, 0, {})
    ELSE LET flags == U16At(packet, 2)
             questions == U16At(packet, 4)
             answers == U16At(packet, 6)
         IN  IF NotAnAnswer(flags, questions) THEN Extracted(NoneResult, 0, {})
             ELSE ExtractLoop(packet, name, type, HeaderSize, answers, 0)

----------------------------------------------------------------------------
(* Inputs of the codec.                                                    *)

\* all sequences over S of length at most n
SeqsUpTo(S, n) == UNION {[1..k -> S] : k \in 0..n}

\* c repeated n times
Rep(c, n) == [i \in 1..n |-> c]

\* "."  "a"  "b"  and a non-ASCII letter (e acute)
NameAlphabet == {Dot, 97, 98, 233}

ShortNames == SeqsUpTo(NameAlphabet, MaxNameLen)

\* names with one label of LongLabelLen and of LongLabelLen + 1 characters
LongNames ==
    UNION {{Rep(97, n), Rep(97, n) \o <<Dot, 98>>} :
           n \in {LongLabelLen, LongLabelLen + 1}}

EncodableNames == ShortNames \cup LongNames

\* "dev.local"
DevLocal == <<100, 101, 118, 46, 108, 111, 99, 97, 108>>
\* "a.b"
AB == <<97, 46, 98>>
\* "_services._dns-sd._udp.local"
ServicesName ==
    <<95, 115, 101, 114, 118, 105, 99, 101, 115, 46,
      95, 100, 110, 115, 45, 115, 100, 46,
      95, 117, 100, 112, 46, 108, 111, 99, 97, 108>>

\* bytes that matter to decode_name: the end marker, label lengths, a letter,
\* the pointer byte 0xC0, offset 12 and a byte that is no text
ByteAlphabet == {0, 1, 12, 97, 192, 255}

RawBuffers == SeqsUpTo(ByteAlphabet, MaxBufLen)

RecordTypes == {RECORD_A, RECORD_PTR, RECORD_TXT, RECORD_SRV}

\* A compression packet: pad junk bytes, the name's bytes at offset K = pad,
\* gap junk bytes, then the two bytes of a pointer to K at offset P.
CompressionPacket(pad, name_bytes, gap) ==
    Rep(255, pad) \o name_bytes \o Rep(255, gap) \o <<192 + (pad \div 256), pad % 256>>

CompressionNames == {DevLocal, AB, <<97>>, ServicesName}

\* The answers of a generated response packet.  nm is the answer's name:
\* "dev" is dev.local, "ab" is a.b, "ptr" a compression pointer to offset 12,
\* the name of the packet's first answer.  pay is its type and data.
AnswerPool == [nm : {"dev", "ab", "ptr"}, pay : {"A", "TXT", "TXT0", "PTR", "SRV"}]

AnswerLists(n) == {a \in SeqsUpTo(AnswerPool, n) : a = <<>> \/ a[1].nm # "ptr"}

PlainLabels(nm) ==
    IF nm = "dev" THEN <<(<<100, 101, 118>>), (<<108, 111, 99, 97, 108>>)>>
    ELSE <<(<<97>>), (<<98>>)>>

\* the labels of answer i's name
AnswerLabels(answers, i) ==
    PlainLabels(IF answers[i].nm = "ptr" THEN answers[1].nm ELSE answers[i].nm)

\* labels on the wire: each a length byte and its bytes
WireLabels(labels) == Concat([i \in 1..Len(labels) |-> <<Len(labels[i])>> \o labels[i]])

WireName(answers, i) ==
    IF answers[i].nm = "ptr" THEN <<192, 12>>
    ELSE WireLabels(AnswerLabels(answers, i)) \o <<0>>

PayType(pay) ==
    IF pay = "A" THEN RECORD_A
    ELSE IF pay = "PTR" THEN RECORD_PTR
    ELSE IF pay = "SRV" THEN RECORD_SRV
    ELSE RECORD_TXT

\* rdata: 192.168.1.10; "hi"; nothing; the label "a" and a pointer to offset
\* 12; the bytes 00 00 00 50 27
PayData(pay) ==
    IF pay = "A" THEN <<192, 168, 1, 10>>
    ELSE IF pay = "TXT" THEN <<104, 105>>
    ELSE IF pay = "TXT0" THEN <<>>
    ELSE IF pay = "PTR" THEN <<1, 97, 192, 12>>
    ELSE <<0, 0, 0, 80, 39>>

\* What the data reads as, written out character by character:
\* "192.168.1.10", "hi", "", "a." and the first answer's name, and
\* b"\x00\x00\x00P'" (with its letter b and quotes).
PayText(answers, pay) ==
    IF pay = "A" THEN <<49, 57, 50, 46, 49, 54, 56, 46, 49, 46, 49, 48>>
    ELSE IF pay = "TXT" THEN <<104, 105>>
    ELSE IF pay = "TXT0" THEN <<>>
    ELSE IF pay = "PTR"
        THEN <<97, 46>> \o (IF answers[1].nm = "dev" THEN DevLocal ELSE AB)
    ELSE <<98, 34, 92, 120, 48, 48, 92, 120, 48, 48, 92, 120, 48, 48, 80, 39, 34>>

\* answer i on the wire: name, type, class IN, ttl 120, rdlength, rdata
WireAnswer(answers, i) ==
    WireName(answers, i) \o U16(PayType(answers[i].pay)) \o <<0, 1>>
    \o <<0, 0, 0, 120>> \o U16(Len(PayData(answers[i].pay)))
    \o PayData(answers[i].pay)

\* a packet: the header (id 0, flags, qdcount, ancount, 0, 0) and the answers
WirePacket(flags, qd, an, answers) ==
    U16(0) \o U16(flags) \o U16(qd) \o U16(an) \o U16(0) \o U16(0)
    \o Concat([i \in 1..Len(answers) |-> WireAnswer(answers, i)])

RECURSIVE WireOffset(_, _)
\* the offset of answer i in the packet
WireOffset(answers, i) ==
    IF i = 1 THEN 12 ELSE WireOffset(answers, i - 1) + Len(WireAnswer(answers, i - 1))

\* the offset of answer i's data in the packet
WireDataOffset(answers, i) == WireOffset(answers, i) + Len(WireName(answers, i)) + 10

RequestNames == {DevLocal, AB, Star}

\* headers: (flags, qdcount)
HeaderPool == {<<32768, 0>>, <<33792, 0>>, <<0, 0>>, <<1024, 0>>,
               <<32768, 1>>, <<32768, 256>>, <<33792, 257>>, <<0, 1>>}

QuestionNames == {ServicesName, DevLocal, <<97>>, <<>>, Rep(97, LongLabelLen),
                  Rep(97, LongLabelLen + 1)}

Questions == {<<n, t>> : n \in QuestionNames, t \in RecordTypes}

----------------------------------------------------------------------------
(* The codec: one action per function called, on inputs drawn from the     *)
(* sets above.                                                             *)

CodecIdle == component = "codec" /\ op = "idle"

\* encode_name(name)
CallEncodeName ==
    /\ CodecIdle
    /\ \E name \in EncodableNames :
         /\ op' = "encode_name"
         /\ args' = [name |-> name]
         /\ ret' = encode_name(name)
    /\ UNCHANGED <<component, driverVars, listenVars, broadcastVars>>

\* decode_name(encode_name(name), 0): the buffer is the one just encoded
CallDecodeEncoded ==
    /\ component = "codec" /\ op = "encode_name" /\ ret.kind = "value"
    /\ op' = "decode_name"
    /\ args' = [buffer |-> ret.value, offset |-> 0, from |-> "encode_name",
                name |-> args.name]
    /\ ret' = decode_name(ret.value, 0)
    /\ UNCHANGED <<component, driverVars, listenVars, broadcastVars>>

\* decode_name(buffer, offset) on raw bytes
CallDecodeRaw ==
    /\ CodecIdle
    /\ \E buffer \in RawBuffers : \E offset \in 0..Len(buffer) :
         /\ op' = "decode_name"
         /\ args' = [buffer |-> buffer, offset |-> offset, from |-> "raw",
                     name |-> <<>>]
         /\ ret' = decode_name(buffer, offset)
    /\ UNCHANGED <<component, driverVars, listenVars, broadcastVars>>

\* decode_name(packet, offset) on a packet that holds a name and a pointer to
\* it, at the name's offset and at the pointer's
CallDecodeCompressed ==
    /\ CodecIdle
    /\ \E name \in CompressionNames, pad \in 0..MaxPad, gap \in 0..MaxGap :
         \E name_bytes \in {WireLabels(Split(name, Dot)) \o <<0>>} :
         \E packet \in {CompressionPacket(pad, name_bytes, gap)} :
         \E offset \in {pad, pad + Len(name_bytes) + gap} :
               /\ op' = "decode_name"
               /\ args' = [buffer |-> packet, offset |-> offset,
                           from |-> "compressed", name |-> name]
               /\ ret' = decode_name(packet, offset)
    /\ UNCHANGED <<component, driverVars, listenVars, broadcastVars>>

\* encode_mdns(questions)
CallEncodeMdns ==
    /\ CodecIdle
    /\ \E questions \in SeqsUpTo(Questions, MaxQuestions) :
         /\ op' = "encode_mdns"
         /\ args' = [questions |-> questions]
         /\ ret' = encode_mdns(questions)
    /\ UNCHANGED <<component, driverVars, listenVars, broadcastVars>>

ExtractArgs(packet, name, type, answers, an, wellformed) ==
    [packet |-> packet, name |-> name, type |-> type, answers |-> answers,
     an |-> an, wellformed |-> wellformed]

\* extract_mdns_answer on a whole response packet of well-formed answers, its
\* answer count the number of answers or one less
CallExtractResponse ==
    /\ CodecIdle
    /\ \E answers \in AnswerLists(MaxAnswers), name \in RequestNames,
          type \in RecordTypes :
         \E an \in {n \in {Len(answers) - 1, Len(answers)} : n >= 0} :
           \E packet \in {WirePacket(FLAG_RESPONSE, 0, an, answers)} :
               /\ op' = "extract_mdns_answer"
               /\ args' = ExtractArgs(packet, name, type, answers, an, TRUE)
               /\ ret' = extract_mdns_answer(packet, name, type)
    /\ UNCHANGED <<component, driverVars, listenVars, broadcastVars>>

\* extract_mdns_answer on a whole packet under each header
CallExtractHeader ==
    /\ CodecIdle
    /\ \E answers \in AnswerLists(MaxTruncAnswers), name \in RequestNames,
          type \in RecordTypes, h \in HeaderPool, an \in 0..2 :
         \E packet \in {WirePacket(h[1], h[2], an, answers)} :
             /\ op' = "extract_mdns_answer"
             /\ args' = ExtractArgs(packet, name, type, answers, an,
                                    an <= Len(answers))
             /\ ret' = extract_mdns_answer(packet, name, type)
    /\ UNCHANGED <<component, driverVars, listenVars, broadcastVars>>

\* extract_mdns_answer on a response packet cut after its first `cut` bytes
CallExtractTruncated ==
    /\ CodecIdle
    /\ \E answers \in AnswerLists(MaxTruncAnswers) \ {<<>>},
          type \in RecordTypes, qd \in {0, 1} :
         \E whole \in {WirePacket(FLAG_RESPONSE, qd, Len(answers), answers)} :
         \E cut \in 0..(Len(whole) - 1) :
         \E packet \in {SubSeq(whole, 1, cut)} :
               /\ op' = "extract_mdns_answer"
               /\ args' = ExtractArgs(packet, Star, type, answers,
                                      Len(answers), FALSE)
               /\ ret' = extract_mdns_answer(packet, Star, type)
    /\ UNCHANGED <<component, driverVars, listenVars, broadcastVars>>

\* extract_mdns_answer on a response header followed by raw bytes
CallExtractRaw ==
    /\ CodecIdle
    /\ \E raw \in RawBuffers, type \in {RECORD_A, RECORD_TXT}, fixed \in BOOLEAN :
         \E packet \in {WirePacket(FLAG_RESPONSE, 0, 1, <<>>) \o raw
                         \o (IF fixed THEN U16(type) \o <<0, 1, 0, 0, 0, 120>>
                                           \o U16(1) \o <<255>>
                             ELSE <<>>)} :
             /\ op' = "extract_mdns_answer"
             /\ args' = ExtractArgs(packet, Star, type, <<>>, 1, FALSE)
             /\ ret' = extract_mdns_answer(packet, Star, type)
    /\ UNCHANGED <<component, driverVars, listenVars, broadcastVars>>

\* the call returns (or is given up): the next call can start
CodecReturn ==
    /\ component = "codec" /\ op # "idle"
    /\ op' = "idle" /\ args' = <<>> /\ ret' = <<>>
    /\ UNCHANGED <<component, driverVars, listenVars, broadcastVars>>

CodecIdleState == op = "idle" /\ args = <<>> /\ ret = <<>>

ListenIdleState ==
    /\ lpc = "idle" /\ lname = <<>> /\ ltype = 0 /\ timeout = 0 /\ limit = 0
    /\ start = 0 /\ remaining = 0 /\ results = <<>> /\ sock_timeout = -1
    /\ now = 0 /\ sent = <<>> /\ lhist = <<>>

BroadcastIdleState ==
    /\ bpc = "idle" /\ btimeout = 0 /\ bnow = 0 /\ bsent = 0
    /\ yielded = <<>> /\ arrived = <<>>

FindIdleState ==
    /\ fpc = "idle" /\ fprefix = <<>> /\ fmax = 0 /\ fresults = <<>>
    /\ fhist = <<>>

SessionIdleState ==
    /\ spc = "closed" /\ s_is_tcp = TRUE /\ wire = <<>> /\ payload = <<>>
    /\ qlog = <<>>

WaveIdleState ==
    /\ bswv = <<>> /\ commands = <<>> /\ wsent = <<>> /\ wcalls = 0

ChannelIdleState ==
    /\ selected_channel = -1 /\ inst_channel = 1
    /\ inst_volts = <<0, 0, 0>>
    /\ clast = [call |-> "none", ch |-> 0, acted |-> 0, exc |-> ""]

DriverIdleState ==
    FindIdleState /\ SessionIdleState /\ WaveIdleState /\ ChannelIdleState

InitCodec ==
    /\ component = "codec" /\ CodecIdleState /\ ListenIdleState
    /\ BroadcastIdleState /\ DriverIdleState

NextCodec ==
    \/ CallEncodeName
    \/ CallDecodeEncoded
    \/ CallDecodeRaw
    \/ CallDecodeCompressed
    \/ CallEncodeMdns
    \/ CallExtractResponse
    \/ CallExtractHeader
    \/ CallExtractTruncated
    \/ CallExtractRaw
    \/ CodecReturn

SpecCodec == InitCodec /\ [][NextCodec]_vars

----------------------------------------------------------------------------
(* MDNS.py: MDNS.query and MDNS._listen_for.                               *)
(*                                                                         *)
(* The method runs from one blocking recvfrom to the next in one step:     *)
(* lpc is "recv" while it blocks in line 138, "done" when it has returned  *)
(* results, "raised" when an exception has left it and "hung" when a call  *)
(* it made never returns.                                                  *)

\* The datagrams the multicast socket may receive, by name.
Datagrams == {"addr", "addr_ab", "text", "empty_text", "question",
              "cut", "not_text", "loop", "short"}

\* "addr": dev.local has address 192.168.1.10; "addr_ab": a.b has that address;
\* "text": dev.local has text "hi"; "empty_text": dev.local has an empty text;
\* "question": another host's query; "cut": a response cut after its header;
\* "not_text": a text answer whose data is the byte FF; "loop": an answer whose
\* name is a pointer to itself; "short": one byte.
DatagramBytes(dg) ==
    IF dg = "addr" THEN WirePacket(FLAG_RESPONSE, 0, 1, <<[nm |-> "dev", pay |-> "A"]>>)
    ELSE IF dg = "addr_ab"
        THEN WirePacket(FLAG_RESPONSE + FLAG_AUTHORITIVE, 0, 1, <<[nm |-> "ab", pay |-> "A"]>>)
    ELSE IF dg = "text" THEN WirePacket(FLAG_RESPONSE, 0, 1, <<[nm |-> "dev", pay |-> "TXT"]>>)
    ELSE IF dg = "empty_text"
        THEN WirePacket(FLAG_RESPONSE, 0, 1, <<[nm |-> "dev", pay |-> "TXT0"]>>)
    ELSE IF dg = "question"
        THEN U16(0) \o U16(0) \o U16(1) \o U16(0) \o U16(0) \o U16(0)
             \o WireLabels(PlainLabels("dev")) \o <<0>> \o U16(RECORD_A) \o <<128, 1>>
    ELSE IF dg = "cut" THEN WirePacket(FLAG_RESPONSE, 0, 1, <<>>)
    ELSE IF dg = "not_text"
        THEN WirePacket(FLAG_RESPONSE, 0, 1, <<>>)
             \o <<1, 97, 0>> \o U16(RECORD_TXT) \o <<0, 1, 0, 0, 0, 120>> \o U16(1) \o <<255>>
    ELSE IF dg = "loop"
        THEN WirePacket(FLAG_RESPONSE, 0, 1, <<>>) \o <<192, 12>>
    ELSE <<0>>

\* the queries made: an address by name, any text
Queries == {<<DevLocal, RECORD_A>>, <<Star, RECORD_TXT>>}

\* remaining > 0 and len(results) < limit   (line 136) with <= for <
LoopContinuesPastLimit(rem, res, lim) == rem > 0 /\ Len(res) <= lim

\* remaining > 0 and len(results) < limit   (line 136)
LoopContinues(rem, res, lim) == rem > 0 /\ Len(res) < lim

\* line 142 without the time elapsed
RemainingNotRecomputed(tmo, t, t0) == tmo

\* timeout - (time.time() - start)   (line 142)
Remaining(tmo, t, t0) == tmo - (t - t0)

\* if result:   (line 140): None and the empty string are false
Truthy(r) == r.kind = "value" /\ r.value # <<>>

\* The top of the while loop, lines 136-138, with these locals: the method
\* blocks in recvfrom, or leaves the loop and returns.
LoopTopPc(rem, res, lim) ==
    IF LoopContinues(rem, res, lim) THEN "recv" ELSE "done"

\* self.socket.settimeout(remaining)   (line 137), when the loop goes on
LoopTopTimeout(rem, res, lim, old) ==
    IF LoopContinues(rem, res, lim) THEN rem ELSE old

\* query(name, type, timeout, limit) up to its first recvfrom: lines 127-138
Query ==
    /\ component = "listen" /\ lpc = "idle"
    /\ \E q \in Queries, tmo \in 0..MaxTimeout, lim \in 0..MaxLimit :
         /\ lname' = q[1]
         /\ ltype' = q[2]
         /\ timeout' = tmo
         /\ limit' = lim
         /\ sent' = Append(sent, encode_mdns(<<q>>).value)
         /\ start' = now
         /\ remaining' = tmo
         /\ results' = <<>>
         /\ sock_timeout' = LoopTopTimeout(tmo, <<>>, lim, sock_timeout)
         /\ lpc' = LoopTopPc(tmo, <<>>, lim)
    /\ lhist' = <<>>
    /\ UNCHANGED <<component, driverVars, codecVars, now, broadcastVars>>

\* results after lines 139-141
Collected(res, result) ==
    IF Truthy(result) THEN Append(res, result.value) ELSE res

\* recvfrom returns a datagram d ticks after it was called, before the socket's
\* timeout: lines 138-142 and the loop's next turn up to recvfrom.  An
\* exception of extract_mdns_answer leaves the method, whose only handler is
\* for TimeoutError.
Receive ==
    /\ component = "listen" /\ lpc = "recv"
    /\ Len(lhist) < MaxDatagrams
    /\ \E dg \in Datagrams, d \in 0..(sock_timeout - 1) :
       \E data \in {DatagramBytes(dg)} :
       \E result \in {extract_mdns_answer(data, lname, ltype)} :
       \E res \in {Collected(results, result)},
          rem \in {Remaining(timeout, now + d, start)} :
         LET returned == result.kind \in {"value", "None"}
         IN  /\ now' = now + d
             /\ lhist' = Append(lhist, dg)
             /\ results' = IF returned THEN res ELSE results
             /\ remaining' = IF returned THEN rem ELSE remaining
             /\ sock_timeout' = IF returned
                                THEN LoopTopTimeout(rem, res, limit, sock_timeout)
                                ELSE sock_timeout
             /\ lpc' = IF result.kind = "raise" THEN "raised"
                       ELSE IF result.kind = "hang" THEN "hung"
                       ELSE LoopTopPc(rem, res, limit)
    /\ UNCHANGED <<component, driverVars, codecVars, lname, ltype, timeout, limit, start,
                   sent, broadcastVars>>

\* recvfrom raises TimeoutError when the socket's timeout has passed with no
\* datagram: lines 143-145
ReceiveTimeout ==
    /\ component = "listen" /\ lpc = "recv"
    /\ now' = now + sock_timeout
    /\ lpc' = "done"
    /\ UNCHANGED <<component, driverVars, codecVars, lname, ltype, timeout, limit, start,
                   remaining, results, sock_timeout, sent, lhist, broadcastVars>>

InitListen ==
    /\ component = "listen" /\ CodecIdleState /\ BroadcastIdleState
    /\ DriverIdleState
    /\ lpc = "idle" /\ lname = <<>> /\ ltype = 0 /\ timeout = 0 /\ limit = 0
    /\ start = 0 /\ remaining = 0 /\ results = <<>> /\ sock_timeout = -1
    /\ now \in 0..MaxStart /\ sent = <<>> /\ lhist = <<>>

NextListen == Query \/ Receive \/ ReceiveTimeout

SpecListen == InitListen /\ [][NextListen]_vars

----------------------------------------------------------------------------
(* instrument/SCPI.py: broadcast_search, a generator consumed to its end.  *)
(*                                                                         *)
(* bpc is "recv" while the generator blocks in recvfrom (line 114) and     *)
(* "done" when it has returned.  The consumer asks for the next pair as    *)
(* soon as it is given one.                                                *)

\* the replies the broadcast socket may receive: (data, address)
Replies == {<<data, address>> : data \in {<<49>>, <<255>>},
                                address \in {"hostA", "hostB"}}

\* lines 107-114: bind, settimeout(timeout), sendto, and the first recvfrom
ScanStart ==
    /\ component = "broadcast" /\ bpc = "idle"
    /\ \E tmo \in 1..MaxScanTimeout :
         btimeout' = tmo
    /\ bsent' = bnow
    /\ bpc' = "recv"
    /\ UNCHANGED <<component, driverVars, codecVars, listenVars, bnow, yielded, arrived>>

\* recvfrom returns a reply d ticks after it was called, before the socket's
\* timeout; the pair is yielded and the generator resumed: lines 114-115
ScanReceive ==
    /\ component = "broadcast" /\ bpc = "recv"
    /\ Len(arrived) < MaxReplies
    /\ \E reply \in Replies, d \in 0..(btimeout - 1) :
         /\ bnow' = bnow + d
         /\ arrived' = Append(arrived, reply)
         /\ yielded' = Append(yielded, <<reply[1], reply[2]>>)
    /\ UNCHANGED <<component, driverVars, codecVars, listenVars, bpc, btimeout, bsent>>

\* recvfrom raises TimeoutError when the socket's timeout has passed with no
\* reply: lines 116-117
ScanTimeout ==
    /\ component = "broadcast" /\ bpc = "recv"
    /\ bnow' = bnow + btimeout
    /\ bpc' = "done"
    /\ UNCHANGED <<component, driverVars, codecVars, listenVars, btimeout, bsent, yielded,
                   arrived>>

InitBroadcast ==
    /\ component = "broadcast" /\ CodecIdleState /\ ListenIdleState
    /\ DriverIdleState
    /\ bpc = "idle" /\ btimeout = 0 /\ bnow \in 0..MaxStart /\ bsent = 0
    /\ yielded = <<>> /\ arrived = <<>>

NextBroadcast == ScanStart \/ ScanReceive \/ ScanTimeout

SpecBroadcast == InitBroadcast /\ [][NextBroadcast]_vars

----------------------------------------------------------------------------
(* instrument/SCPI.py: from_uri.  A backend is the record of the           *)
(* constructor called and its arguments.                                   *)

\* ":"   (line 83)
Colon == 58
\* "/"   (line 94)
Slash == 47
\* the defaults of baud and port   (line 77)
DefaultBaud == 9600
DefaultPort == 5025

Tty == <<116, 116, 121>>
Tcp == <<116, 99, 112>>
Udp == <<117, 100, 112>>
Ip == <<105, 112>>

\* the string is one or more decimal digits
IsDigits(s) == s # <<>> /\ \A i \in 1..Len(s) : s[i] \in 48..57

RECURSIVE DecValue(_)
\* the number a string of decimal digits denotes
DecValue(s) ==
    IF s = <<>> THEN 0
    ELSE 10 * DecValue(SubSeq(s, 1, Len(s) - 1)) + (s[Len(s)] - 48)

\* int(s), for s made of digits and letters
IntParse(s) == IF IsDigits(s) THEN Value(DecValue(s)) ELSE Raise("ValueError")

\* s.removeprefix(prefix)
RemovePrefix(s, prefix) ==
    IF Len(s) >= Len(prefix) /\ SubSeq(s, 1, Len(prefix)) = prefix
    THEN SubSeq(s, Len(prefix) + 1, Len(s)) ELSE s

\* SerialSCPI(path, baud)   (line 91)
SerialSCPI(path, baud) == [class |-> "SerialSCPI", path |-> path, baud |-> baud]

\* SocketSCPI(address, port, is_tcp)   (line 100)
SocketSCPI(address, port, is_tcp) ==
    [class |-> "SocketSCPI", address |-> address, port |-> port,
     is_tcp |-> is_tcp]

\* scheme in ["udp", "tcp", "ip"]   (line 93)
SocketSchemes == {Udp, Tcp, Ip}

\* the tty branch, lines 88-91
FromTty(address, third, baud) ==
    IF third # <<>>
    THEN LET n == IntParse(third)
         IN  IF n.kind = "raise" THEN n ELSE Value(SerialSCPI(address, n.value))
    ELSE Value(SerialSCPI(address, baud))

\* the socket branch, lines 93-100
FromSocket(scheme, address, third, port, is_tcp) ==
    LET a == RemovePrefix(address, <<Slash, Slash>>)
        tcp == IF scheme # Ip THEN scheme = Tcp ELSE is_tcp
    IN  IF third # <<>>
        THEN LET n == IntParse(third)
             IN  IF n.kind = "raise" THEN n
                 ELSE Value(SocketSCPI(a, n.value, tcp))
        ELSE Value(SocketSCPI(a, port, tcp))

\* from_uri(uri, baud, port, is_tcp); uri is a str (str = TRUE, text) or some
\* other object (str = FALSE).  args of line 86 is None or a string, and
\* `if args` is false for both None and "".
from_uri(uri, baud, port, is_tcp) ==
    IF ~uri.str THEN Value(uri)
    ELSE LET components == Split(uri.text, Colon)
         IN  IF Len(components) < 2 THEN Raise("IndexError")
             ELSE LET scheme == components[1]
                      address == components[2]
                      third == IF Len(components) > 2 THEN components[3] ELSE <<>>
                  IN  IF scheme = Tty THEN FromTty(address, third, baud)
                      ELSE IF scheme \in SocketSchemes
                      THEN FromSocket(scheme, address, third, port, is_tcp)
                      ELSE Raise("Exception: uri scheme not recognised")

\* "vxi", "usb"
Vxi == <<118, 120, 105>>
Usb == <<117, 115, 98>>

UriSchemes == {Tty, Tcp, Udp, Ip, Vxi, Usb, <<>>}
\* "h"  "//h"  "/t"  ""
UriAddresses == {<<104>>, <<Slash, Slash, 104>>, <<Slash, 116>>, <<>>}
\* ""  "80"  "x"  "80:9"
UriParams == {<<>>, <<56, 48>>, <<120>>, <<56, 48, Colon, 57>>}

UriTexts ==
    UriSchemes
    \cup {s \o <<Colon>> \o a : s \in UriSchemes, a \in UriAddresses}
    \cup {s \o <<Colon>> \o a \o <<Colon>> \o q :
            s \in UriSchemes, a \in UriAddresses, q \in UriParams}

\* the uri argument: a string, or an object that is a backend already
UriArguments ==
    {[str |-> TRUE, text |-> u] : u \in UriTexts}
    \cup {[str |-> FALSE, text |-> <<>>]}

\* from_uri(uri, baud, port, is_tcp)
CallFromUri ==
    /\ component = "uri" /\ op = "idle"
    /\ \E uri \in UriArguments, baud \in {DefaultBaud, 2 * DefaultBaud},
          port \in {DefaultPort, DefaultPort + 1}, is_tcp \in BOOLEAN :
         /\ op' = "from_uri"
         /\ args' = [uri |-> uri, baud |-> baud, port |-> port, is_tcp |-> is_tcp]
         /\ ret' = from_uri(uri, baud, port, is_tcp)
    /\ UNCHANGED <<component, driverVars, listenVars, broadcastVars>>

UriReturn ==
    /\ component = "uri" /\ op = "from_uri"
    /\ op' = "idle" /\ args' = <<>> /\ ret' = <<>>
    /\ UNCHANGED <<component, driverVars, listenVars, broadcastVars>>

InitUri ==
    /\ component = "uri" /\ CodecIdleState /\ ListenIdleState
    /\ BroadcastIdleState /\ DriverIdleState

NextUri == CallFromUri \/ UriReturn

SpecUri == InitUri /\ [][NextUri]_vars

----------------------------------------------------------------------------
(* instrument/IT6300.py and equipment/TENMA72_132.py: find_devices, the    *)
(* loop over the replies that broadcast_search yields.                     *)

\* Most replies a scan takes before the generator is left or ends.
MaxFindReplies == 2
\* Largest max_devices.
MaxDevices == 2
\* Longest reply drawn from the two-letter alphabet, in bytes.
MaxReplyLen == 3

\* the line boundaries of str.splitlines(): \n \r \v \f \x1c \x1d \x1e \x85
\* and the line and paragraph separators
LineBreaks == {10, 13, 11, 12, 28, 29, 30, 133, 8232, 8233}

\* s.splitlines(): \r\n is one boundary, and no empty line follows a final
\* boundary
SplitLines(s) ==
    LET ends == {i \in 1..Len(s) :
                   /\ s[i] \in LineBreaks
                   /\ ~(s[i] = 13 /\ i < Len(s) /\ s[i + 1] = 10)}
        cuts == ends \cup {0}
        Cut(k) == CHOOSE x \in cuts : Cardinality({y \in cuts : y < x}) = k
        n == Cardinality(ends)
        last == Cut(n)
        Line(k) ==
            LET from == Cut(k - 1) + 1
                e == Cut(k)
                to == IF s[e] = 10 /\ e - 1 >= from /\ s[e - 1] = 13
                      THEN e - 2 ELSE e - 1
            IN  SubSeq(s, from, to)
    IN  [k \in 1..n |-> Line(k)]
        \o (IF last < Len(s) THEN <<SubSeq(s, last + 1, Len(s))>> ELSE <<>>)

\* "tcp://" (IT6300.py line 89) and "udp://" (TENMA72_132.py line 62)
TcpPrefix == Tcp \o <<Colon, Slash, Slash>>
UdpPrefix == Udp \o <<Colon, Slash, Slash>>

\* the body of the try, lines 86-89: the uri to append, or the exception
ReplyUri(data, prefix) ==
    LET decoded == BytesDecode(data)
    IN  IF ~decoded.ok THEN Raise("UnicodeDecodeError")
        ELSE LET text == SplitLines(decoded.s)
             IN  IF Len(text) < 1 THEN Raise("IndexError")
                 ELSE IF Len(text) < 3 THEN Raise("IndexError")
                 ELSE Value(prefix \o text[1] \o <<Colon>> \o text[3])

\* a handler for decode errors alone
HandledDecodeErrorOnly(exc) == exc = "UnicodeDecodeError"

\* except: pass   (lines 92-93): the handler takes every exception
Handled(exc) == TRUE

\* replies over "1" and "\n", and: a byte that is no text; three lines ended by
\* \r\n; four lines; two lines and a cut character; two lines
ScanReplies ==
    SeqsUpTo({49, 10}, MaxReplyLen)
    \cup {<<255>>,
          <<49, 13, 10, 50, 13, 10, 51, 13, 10>>,
          <<49, 10, 50, 10, 51, 10, 52>>,
          <<49, 10, 50, 10, 195>>,
          <<49, 10, 50>>}

\* find_devices(max_devices) up to the first reply
FindStart ==
    /\ component = "find" /\ fpc = "idle"
    /\ \E prefix \in {TcpPrefix, UdpPrefix}, max_devices \in 0..MaxDevices :
         /\ fprefix' = prefix
         /\ fmax' = max_devices
    /\ fpc' = "scan" /\ fresults' = <<>> /\ fhist' = <<>>
    /\ UNCHANGED <<component, codecVars, listenVars, broadcastVars,
                   sessionVars, waveVars, channelVars>>

\* the generator yields a reply and the loop's body runs on it, lines 85-93
FindReply ==
    /\ component = "find" /\ fpc = "scan"
    /\ Len(fhist) < MaxFindReplies
    /\ \E data \in ScanReplies :
       \E uri \in {ReplyUri(data, fprefix)} :
         /\ fhist' = Append(fhist, data)
         /\ fresults' = IF uri.kind = "value" THEN Append(fresults, uri.value)
                        ELSE fresults
         /\ fpc' = IF uri.kind = "value"
                   THEN (IF Len(fresults) + 1 >= fmax THEN "done" ELSE "scan")
                   ELSE (IF Handled(uri.exc) THEN "scan" ELSE "raised")
    /\ UNCHANGED <<component, codecVars, listenVars, broadcastVars,
                   fprefix, fmax, sessionVars, waveVars, channelVars>>

\* the generator ends (its receive timed out): return results, line 94
FindEnd ==
    /\ component = "find" /\ fpc = "scan"
    /\ fpc' = "done"
    /\ UNCHANGED <<component, codecVars, listenVars, broadcastVars,
                   fprefix, fmax, fresults, fhist, sessionVars, waveVars,
                   channelVars>>

InitFind ==
    /\ component = "find" /\ CodecIdleState /\ ListenIdleState
    /\ BroadcastIdleState /\ DriverIdleState

NextFind == FindStart \/ FindReply \/ FindEnd

SpecFind == InitFind /\ [][NextFind]_vars

----------------------------------------------------------------------------
(* instrument/SCPI.py: a SocketSCPI session, query() = write() then read().*)
(* The instrument answers each command it receives with one frame, its     *)
(* reply text and a newline; the frame reaches the socket at any later     *)
(* time, and a recv that waits longer than the socket's timeout (1.0,      *)
(* line 59) raises TimeoutError.  No frame drawn exceeds the 1024 bytes of *)
(* one recv.                                                               *)

\* Most queries made on one session.
MaxQueries == 3

\* "\n"   (lines 9, 64)
Newline == 10

\* the characters str.strip() removes, among those below U+0100
Whitespace == {9, 10, 11, 12, 13, 28, 29, 30, 31, 32, 133, 160}

\* s.strip()
Strip(s) ==
    LET keep == {i \in 1..Len(s) : s[i] \notin Whitespace}
    IN  IF keep = {} THEN <<>>
        ELSE SubSeq(s, CHOOSE i \in keep : \A j \in keep : i <= j,
                       CHOOSE i \in keep : \A j \in keep : i >= j)

\* SCPI.write: (command + "\n").encode()   (line 9)
WriteBytes(command) == StrEncode(command \o <<Newline>>)

\* SCPI.read on the bytes read_bytes returns: payload[:-1] (line 66), then
\* .decode().strip() (line 12)
ReadText(p) ==
    LET d == BytesDecode(SubSeq(p, 1, Len(p) - 1))
    IN  IF d.ok THEN Value(Strip(d.s)) ELSE Raise("UnicodeDecodeError")

\* payload.endswith(b"\n")   (line 64)
EndsWithNewline(p) == p # <<>> /\ p[Len(p)] = Newline

\* the bytes one recv returns when n bytes have reached a stream socket, or
\* the next datagram of a datagram socket
Received(w, is_tcp, n) ==
    IF is_tcp THEN SubSeq(Concat(w), 1, n) ELSE Head(w)

\* what is left to receive after that recv
Unreceived(w, is_tcp, n) ==
    IF is_tcp
    THEN (IF n = Len(Concat(w)) THEN <<>>
          ELSE <<SubSeq(Concat(w), n + 1, Len(Concat(w)))>>)
    ELSE Tail(w)

\* "?"  "*IDN?"
QueryCommands == {<<63>>, <<42, 73, 68, 78, 63>>}
\* the reply texts: "a"  "bc"  ""  and "b" before \r\n
ReplyTexts == {<<97>>, <<98, 99>>, <<>>, <<98, 13>>}

Pending == [kind |-> "pending", value |-> <<>>, exc |-> ""]

\* the latest entry of the log, with the outcome of its query
Logged(log, out) == [log EXCEPT ![Len(log)].out = out]

\* SocketSCPI(address, port, is_tcp)   (lines 50-60)
SessionOpen ==
    /\ component = "session" /\ spc = "closed"
    /\ \E is_tcp \in BOOLEAN : s_is_tcp' = is_tcp
    /\ spc' = "idle"
    /\ UNCHANGED <<component, codecVars, listenVars, broadcastVars, findVars,
                   wire, payload, qlog, waveVars, channelVars>>

\* query(command) up to the first recv: the command is sent (lines 15, 9, 69)
\* and the instrument answers it with the frame reply + "\n"
SessionQuery ==
    /\ component = "session" /\ spc = "idle"
    /\ Len(qlog) < MaxQueries
    /\ \E command \in QueryCommands, reply \in ReplyTexts :
         /\ qlog' = Append(qlog, [command |-> command,
                                  sent |-> WriteBytes(command),
                                  reply |-> reply, out |-> Pending])
         /\ wire' = Append(wire, StrEncode(reply) \o <<Newline>>)
    /\ spc' = "recv" /\ payload' = <<>>
    /\ UNCHANGED <<component, codecVars, listenVars, broadcastVars, findVars,
                   s_is_tcp, waveVars, channelVars>>

\* one recv of read_bytes returns (lines 63, 65) and the loop's test follows:
\* either another recv, or read_bytes and query return
SessionRecv ==
    /\ component = "session" /\ spc = "recv" /\ wire # <<>>
    /\ \E n \in 1..Len(Concat(wire)) :
       \E data \in {Received(wire, s_is_tcp, n)} :
       \E p \in {payload \o data} :
         /\ ~s_is_tcp => n = 1
         /\ wire' = Unreceived(wire, s_is_tcp, n)
         /\ IF EndsWithNewline(p)
            THEN /\ qlog' = Logged(qlog, ReadText(p))
                 /\ spc' = "idle" /\ payload' = <<>>
            ELSE /\ payload' = p
                 /\ UNCHANGED <<spc, qlog>>
    /\ UNCHANGED <<component, codecVars, listenVars, broadcastVars, findVars,
                   s_is_tcp, waveVars, channelVars>>

\* a recv waits for more than the socket's timeout: TimeoutError leaves
\* read_bytes and query, with the bytes read so far
SessionRecvTimeout ==
    /\ component = "session" /\ spc = "recv"
    /\ qlog' = Logged(qlog, Raise("TimeoutError"))
    /\ spc' = "idle" /\ payload' = <<>>
    /\ UNCHANGED <<component, codecVars, listenVars, broadcastVars, findVars,
                   s_is_tcp, wire, waveVars, channelVars>>

InitSession ==
    /\ component = "session" /\ CodecIdleState /\ ListenIdleState
    /\ BroadcastIdleState /\ DriverIdleState

NextSession ==
    SessionOpen \/ SessionQuery \/ SessionRecv \/ SessionRecvTimeout

SpecSession == InitSession /\ [][NextSession]_vars

----------------------------------------------------------------------------
(* instrument/SDG2000.py: SDG2000Wave.  An OrderedDict is the sequence of  *)
(* its items [key, params] in insertion order.  A formatted number is a    *)
(* string taken as given, and the text ",".join makes of the basic-wave    *)
(* items is the sequence of those items.                                   *)

\* Most calls made on one builder object.
MaxCalls == 4

Item(k, v) == [key |-> k, params |-> v]

HasKey(d, k) == \E i \in 1..Len(d) : d[i].key = k

\* d[k] = v: a key the dict holds keeps its place, a new key goes last
DictSet(d, k, v) ==
    IF HasKey(d, k)
    THEN [i \in 1..Len(d) |-> IF d[i].key = k THEN Item(k, v) ELSE d[i]]
    ELSE Append(d, Item(k, v))

RECURSIVE DictUpdate(_, _)
\* d.update(items)
DictUpdate(d, items) ==
    IF items = <<>> THEN d
    ELSE DictUpdate(DictSet(d, Head(items).key, Head(items).params), Tail(items))

\* submit, lines 92-94: the commands to send.  BSWV is assigned like any
\* other key: it goes last only when the dict does not hold it yet.
SubmitCommands(cmds, basic) ==
    IF Len(basic) # 0 THEN DictSet(cmds, "BSWV", basic) ELSE cmds

\* self._bswv.update(params)   (lines 99-101)
set_basic_params(basic, params) == DictUpdate(basic, params)

\* the two assignments of wave_builtin and wave_user
SetArbWave(cmds, params) ==
    DictSet(DictSet(cmds, "ARWV", params), "SRATE", "MODE,DDS")

WaveCall == component = "wave" /\ wcalls < MaxCalls

\* amplitude(amplitude_volts, offset_volts), also reached through span()
WaveAmplitude ==
    /\ WaveCall
    /\ \E a \in {"1.000V", "2.000V"} :
         bswv' = set_basic_params(bswv, <<Item("AMP", a), Item("OFST", "0.000V")>>)
    /\ wcalls' = wcalls + 1
    /\ UNCHANGED <<component, codecVars, listenVars, broadcastVars, findVars,
                   sessionVars, commands, wsent, channelVars>>

\* frequency(frequency_hz, phase_deg), also reached through period()
WaveFrequency ==
    /\ WaveCall
    /\ bswv' = set_basic_params(bswv, <<Item("FRQ", "1000HZ"), Item("PHSE", "0.0")>>)
    /\ wcalls' = wcalls + 1
    /\ UNCHANGED <<component, codecVars, listenVars, broadcastVars, findVars,
                   sessionVars, commands, wsent, channelVars>>

\* wave_sine()
WaveSine ==
    /\ WaveCall
    /\ bswv' = set_basic_params(bswv, <<Item("WVTP", "SINE")>>)
    /\ wcalls' = wcalls + 1
    /\ UNCHANGED <<component, codecVars, listenVars, broadcastVars, findVars,
                   sessionVars, commands, wsent, channelVars>>

\* wave_square(duty_percent)
WaveSquare ==
    /\ WaveCall
    /\ bswv' = set_basic_params(bswv, <<Item("WVTP", "SQUARE"), Item("DUTY", "50.0")>>)
    /\ wcalls' = wcalls + 1
    /\ UNCHANGED <<component, codecVars, listenVars, broadcastVars, findVars,
                   sessionVars, commands, wsent, channelVars>>

\* wave_dc()
WaveDc ==
    /\ WaveCall
    /\ bswv' = set_basic_params(bswv, <<Item("WVTP", "DC")>>)
    /\ wcalls' = wcalls + 1
    /\ UNCHANGED <<component, codecVars, listenVars, broadcastVars, findVars,
                   sessionVars, commands, wsent, channelVars>>

\* wave_ramp(symmetry_percent)
WaveRamp ==
    /\ WaveCall
    /\ bswv' = set_basic_params(bswv, <<Item("WVTP", "RAMP"), Item("SYM", "50.0")>>)
    /\ wcalls' = wcalls + 1
    /\ UNCHANGED <<component, codecVars, listenVars, broadcastVars, findVars,
                   sessionVars, commands, wsent, channelVars>>

\* wave_noise(stddev_volts, bandwidth_hz), without and with a bandwidth
WaveNoise ==
    /\ WaveCall
    /\ \E params \in {<<Item("WVTP", "NOISE"), Item("STDEV", "0.100V"),
                        Item("BANDSTATE", "OFF")>>,
                      <<Item("WVTP", "NOISE"), Item("STDEV", "0.100V"),
                        Item("BANDSTATE", "ON"),
                        Item("BANDWIDTH", "1000.000000")>>} :
         bswv' = set_basic_params(bswv, params)
    /\ wcalls' = wcalls + 1
    /\ UNCHANGED <<component, codecVars, listenVars, broadcastVars, findVars,
                   sessionVars, commands, wsent, channelVars>>

\* wave_pulse(width_seconds, rise_seconds)
WavePulse ==
    /\ WaveCall
    /\ bswv' = set_basic_params(bswv, <<Item("WVTP", "PULSE"),
                                        Item("WIDTH", "0.001000S"),
                                        Item("RISE", "0.000000S")>>)
    /\ wcalls' = wcalls + 1
    /\ UNCHANGED <<component, codecVars, listenVars, broadcastVars, findVars,
                   sessionVars, commands, wsent, channelVars>>

\* wave_builtin(name): the name is one of the instrument's waves, or the
\* lookup of line 77 raises KeyError and nothing is set
WaveBuiltin ==
    /\ WaveCall
    /\ \E found \in BOOLEAN :
         commands' = IF found THEN SetArbWave(commands, "INDEX,10") ELSE commands
    /\ wcalls' = wcalls + 1
    /\ UNCHANGED <<component, codecVars, listenVars, broadcastVars, findVars,
                   sessionVars, bswv, wsent, channelVars>>

\* wave_user(name)
WaveUser ==
    /\ WaveCall
    /\ commands' = SetArbWave(commands, "NAME,w")
    /\ wcalls' = wcalls + 1
    /\ UNCHANGED <<component, codecVars, listenVars, broadcastVars, findVars,
                   sessionVars, bswv, wsent, channelVars>>

\* sample_rate(sample_rate_hz, interpolate)
WaveSampleRate ==
    /\ WaveCall
    /\ \E p \in {"MODE,TARB,VALUE,1000,INTER,LINE", "MODE,TARB,VALUE,1000,INTER,HOLD"} :
         commands' = DictSet(commands, "SRATE", p)
    /\ wcalls' = wcalls + 1
    /\ UNCHANGED <<component, codecVars, listenVars, broadcastVars, findVars,
                   sessionVars, bswv, wsent, channelVars>>

\* submit(): the commands are sent in the dict's order, each by
\* _channel_command; a transport error leaves submit after n commands
WaveSubmit ==
    /\ WaveCall
    /\ commands' = SubmitCommands(commands, bswv)
    /\ \E n \in 0..Len(commands') : wsent' = SubSeq(commands', 1, n)
    /\ wcalls' = wcalls + 1
    /\ UNCHANGED <<component, codecVars, listenVars, broadcastVars, findVars,
                   sessionVars, bswv, channelVars>>

InitWave ==
    /\ component = "wave" /\ CodecIdleState /\ ListenIdleState
    /\ BroadcastIdleState /\ DriverIdleState

NextWave ==
    \/ WaveAmplitude
    \/ WaveFrequency
    \/ WaveSine
    \/ WaveSquare
    \/ WaveDc
    \/ WaveRamp
    \/ WaveNoise
    \/ WavePulse
    \/ WaveBuiltin
    \/ WaveUser
    \/ WaveSampleRate
    \/ WaveSubmit

SpecWave == InitWave /\ [][NextWave]_vars

----------------------------------------------------------------------------
(* instrument/IT6300.py: IT6300.select_channel and the per-channel calls   *)
(* of IT6300CH.  The instrument selects channel n on "INST:NSEL n" when it *)
(* has a channel n and keeps its selection otherwise, answers "INST:NSEL?" *)
(* with its selection, and applies "VOLT" to the selected channel.  A      *)
(* write or a read of the transport may fail with an exception.            *)

\* Largest voltage set, in volts.
MaxVolts == 2

\* the channels of the instrument: range(3)   (line 37)
NumChannels == 3

\* where a call on the transport fails, if it does
Faults == {"none", "write", "read"}

\* the instrument's selection after "INST:NSEL ch"
InstSelect(inst, ch) == IF ch \in 1..NumChannels THEN ch ELSE inst

\* select_channel(ch), lines 59-64, on the cache and the instrument's
\* selection: the two after the call and the exception raised, if any
select_channel(cache, inst, ch, fault) ==
    IF cache = ch THEN [cache |-> cache, inst |-> inst, exc |-> ""]
    ELSE IF fault = "write"
    THEN [cache |-> cache, inst |-> inst, exc |-> "OSError"]
    ELSE LET selected == InstSelect(inst, ch)
         IN  IF fault = "read"
             THEN [cache |-> cache, inst |-> selected, exc |-> "TimeoutError"]
             ELSE IF IntParse(Digits(selected)).value # ch
             THEN [cache |-> cache, inst |-> selected,
                   exc |-> "Exception: Channel change failed"]
             ELSE [cache |-> ch, inst |-> selected, exc |-> ""]

\* IT6300.select_channel(ch)
SelectChannel ==
    /\ component = "channel"
    /\ \E ch \in 1..(NumChannels + 1), fault \in Faults :
       \E s \in {select_channel(selected_channel, inst_channel, ch, fault)} :
         /\ selected_channel' = s.cache
         /\ inst_channel' = s.inst
         /\ clast' = [call |-> "select_channel", ch |-> ch, acted |-> 0,
                      exc |-> s.exc]
    /\ UNCHANGED <<component, codecVars, listenVars, broadcastVars, findVars,
                   sessionVars, waveVars, inst_volts>>

\* IT6300CH.set_voltage(volts) of channel ch, lines 18-20: select_channel,
\* then "VOLT" is written, to the channel the instrument has selected
ChannelSetVoltage ==
    /\ component = "channel"
    /\ \E ch \in 1..NumChannels, volts \in 1..MaxVolts, fault \in Faults :
       \E s \in {select_channel(selected_channel, inst_channel, ch, fault)} :
         /\ selected_channel' = s.cache
         /\ inst_channel' = s.inst
         /\ inst_volts' = IF s.exc = "" THEN [inst_volts EXCEPT ![s.inst] = volts]
                          ELSE inst_volts
         /\ clast' = [call |-> "set_voltage", ch |-> ch,
                      acted |-> IF s.exc = "" THEN s.inst ELSE 0, exc |-> s.exc]
    /\ UNCHANGED <<component, codecVars, listenVars, broadcastVars, findVars,
                   sessionVars, waveVars>>

\* IT6300CH.get_voltage() of channel ch, lines 10-12: select_channel, then
\* "MEAS:VOLT?" is answered for the channel the instrument has selected
ChannelGetVoltage ==
    /\ component = "channel"
    /\ \E ch \in 1..NumChannels, fault \in Faults :
       \E s \in {select_channel(selected_channel, inst_channel, ch, fault)} :
         /\ selected_channel' = s.cache
         /\ inst_channel' = s.inst
         /\ clast' = [call |-> "get_voltage", ch |-> ch,
                      acted |-> IF s.exc = "" THEN s.inst ELSE 0, exc |-> s.exc]
    /\ UNCHANGED <<component, codecVars, listenVars, broadcastVars, findVars,
                   sessionVars, waveVars, inst_volts>>

InitChannel ==
    /\ component = "channel" /\ CodecIdleState /\ ListenIdleState
    /\ BroadcastIdleState /\ FindIdleState /\ SessionIdleState /\ WaveIdleState
    /\ selected_channel = -1 /\ inst_channel \in 1..NumChannels
    /\ inst_volts = <<0, 0, 0>>
    /\ clast = [call |-> "none", ch |-> 0, acted |-> 0, exc |-> ""]

NextChannel == SelectChannel \/ ChannelSetVoltage \/ ChannelGetVoltage

SpecChannel == InitChannel /\ [][NextChannel]_vars

----------------------------------------------------------------------------
(* The library: a behaviour exercises one of its parts.                    *)

Init ==
    \/ InitCodec
    \/ InitListen
    \/ InitBroadcast
    \/ InitUri
    \/ InitFind
    \/ InitSession
    \/ InitWave
    \/ InitChannel

Next ==
    \/ NextCodec
    \/ NextListen
    \/ NextBroadcast
    \/ NextUri
    \/ NextFind
    \/ NextSession
    \/ NextWave
    \/ NextChannel

Spec == Init /\ [][Next]_vars

----------------------------------------------------------------------------
(* Claims about the codec, checked under SpecCodec.                        *)

IsAscii(name) == \A i \in 1..Len(name) : name[i] < 128

\* every label (a run of characters without a dot) has at most n characters
LabelsAtMost(name, n) ==
    \A i \in 1..(Len(name) - n) : \E j \in i..(i + n) : name[j] = Dot

\* no label is empty: the name is not empty, neither starts nor ends with a dot
\* and holds no two dots in a row
NoEmptyLabel(name) ==
    /\ name # <<>>
    /\ name[1] # Dot /\ name[Len(name)] # Dot
    /\ \A i \in 1..(Len(name) - 1) : ~(name[i] = Dot /\ name[i + 1] = Dot)

RoundTripCall == op = "decode_name" /\ args.from = "encode_name"

\* C1 as stated: for every dotted name whose labels are each at most 63 bytes
\* of ASCII, decode_name(encode_name(name), 0) returns the name and the offset
\* just past the terminating zero byte (the end of the encoded buffer).
C1_RoundTripAnyLabels ==
    (RoundTripCall /\ IsAscii(args.name) /\ LabelsAtMost(args.name, 63))
        => ret = NameResult(args.name, Len(args.buffer))

\* C1 as amended: the same for every such name none of whose labels is empty
\* (each label has 1 to 63 bytes).
C1_RoundTrip ==
    (RoundTripCall /\ IsAscii(args.name) /\ LabelsAtMost(args.name, 63)
       /\ NoEmptyLabel(args.name))
        => ret = NameResult(args.name, Len(args.buffer))

\* a name of two labels, the first of 63 characters, has made the round trip
C1_Witness ==
    /\ RoundTripCall /\ IsAscii(args.name) /\ LabelsAtMost(args.name, 63)
    /\ NoEmptyLabel(args.name)
    /\ Len(args.name) = 65 /\ args.name[64] = Dot
    /\ ret.kind = "value" /\ ret.name = args.name /\ ret.offset = 67

\* the bytes at offset p of the buffer are a compression pointer
PointerAt(buffer, p) == p + 2 <= Len(buffer) /\ buffer[p + 1] >= 192

\* the offset that pointer names
PointedAt(buffer, p) == (buffer[p + 1] - 192) * 256 + buffer[p + 2]

\* C2: when the bytes at P are a compression pointer to an earlier offset K
\* that holds a name, decode_name(packet, P) returns the string
\* decode_name(packet, K) returns and the offset P + 2; in a generated
\* compression packet that string is the name the packet was built from.
C2_Compression ==
    op = "decode_name" =>
      /\ (PointerAt(args.buffer, args.offset)
            /\ PointedAt(args.buffer, args.offset) < args.offset
            /\ decode_name(args.buffer, PointedAt(args.buffer, args.offset)).kind
                 = "value")
           => ret = NameResult(
                      decode_name(args.buffer,
                                  PointedAt(args.buffer, args.offset)).name,
                      args.offset + 2)
      /\ args.from = "compressed" => (ret.kind = "value" /\ ret.name = args.name)

\* "dev.local" was decoded through a pointer at offset 13 to offset 2, the
\* name's own end being offset 13
C2_Witness ==
    /\ op = "decode_name" /\ args.from = "compressed"
    /\ args.offset = 13 /\ PointerAt(args.buffer, 13)
    /\ PointedAt(args.buffer, 13) = 2
    /\ ret.kind = "value" /\ ret.name = DevLocal /\ ret.offset = 15

ExtractCall == op = "extract_mdns_answer"

\* the header of a packet of at least 12 bytes says it is a response (bit 15
\* of the flags, the top bit of byte 2) to no question (bytes 4 and 5)
ResponseHeader(packet) ==
    packet[3] >= 128 /\ packet[5] = 0 /\ packet[6] = 0

\* C3: extract_mdns_answer returns None, having decoded no answer, for every
\* packet whose question count is not zero or whose response flag is unset.
C3_NotAResponse ==
    (ExtractCall /\ Len(args.packet) >= 12 /\ ~ResponseHeader(args.packet))
        => (ret.kind = "None" /\ ret.walked = 0 /\ ret.decoded = {})

\* a response with question count 1 whose first answer is the address record
\* asked for has given None
C3_Witness ==
    /\ ExtractCall /\ Len(args.packet) >= 12
    /\ args.packet[3] = 128 /\ args.packet[5] = 0 /\ args.packet[6] = 1
    /\ args.an = 1 /\ Len(args.answers) = 1
    /\ args.answers[1] = [nm |-> "dev", pay |-> "A"]
    /\ args.name = DevLocal /\ args.type = RECORD_A
    /\ ret.kind = "None"

\* C4: extract_mdns_answer returns a match or None on every packet, malformed
\* or truncated ones included: it never raises (and always returns).
C4_NeverRaises ==
    ExtractCall => ret.kind \in {"value", "None"}

\* answer i's name as text
AnswerNameText(answers, i) ==
    IF (IF answers[i].nm = "ptr" THEN answers[1].nm ELSE answers[i].nm) = "dev"
    THEN DevLocal ELSE AB

\* the answers among the first an that the request (name, type) matches
Matching(answers, an, name, type) ==
    {i \in 1..an : /\ PayType(answers[i].pay) = type
                   /\ (name = Star \/ AnswerNameText(answers, i) = name)}

FirstOf(S) == CHOOSE i \in S : \A j \in S : i <= j

\* C9: on a response packet of well-formed answers extract_mdns_answer returns
\* the data of the first answer, among the first answer-count ones, whose type
\* is the requested one and whose name is the requested one (or the request is
\* "*"), having walked the answers up to it and decoded the data of that one
\* alone; it returns None, having walked them all, when there is none.
C9_FirstMatch ==
    (ExtractCall /\ args.wellformed /\ ResponseHeader(args.packet)) =>
      LET m == Matching(args.answers, args.an, args.name, args.type)
      IN  IF m = {}
          THEN ret = Extracted(NoneResult, args.an, {})
          ELSE ret = Extracted(Value(PayText(args.answers, args.answers[FirstOf(m)].pay)),
                               FirstOf(m),
                               {WireDataOffset(args.answers, FirstOf(m))})

\* one address answer for "dev.local" with data 192,168,1,10 has given
\* "192.168.1.10"
C9_Witness ==
    /\ ExtractCall /\ args.wellformed /\ ResponseHeader(args.packet)
    /\ args.answers = <<[nm |-> "dev", pay |-> "A"]>> /\ args.an = 1
    /\ args.name = DevLocal /\ args.type = RECORD_A
    /\ ret.kind = "value"
    /\ ret.value = <<49, 57, 50, 46, 49, 54, 56, 46, 49, 46, 49, 48>>

\* the bytes of question q: its encoded name, its type, the class 0x8001
QuestionBytes(q) == encode_name(q[1]).value \o <<q[2] \div 256, q[2] % 256, 128, 1>>

\* C10: encode_mdns(questions) is a header of 12 bytes (id 0, flags 0, the
\* number of questions, three counts of 0) followed by each question in list
\* order: its encoded name, its type and the class 0x8001.
C10_QueryPacket ==
    op = "encode_mdns" =>
      /\ ret.kind = "value"
      /\ ret.value =
           <<0, 0, 0, 0, Len(args.questions) \div 256, Len(args.questions) % 256,
             0, 0, 0, 0, 0, 0>>
           \o Concat([i \in 1..Len(args.questions) |-> QuestionBytes(args.questions[i])])

\* the query for "_services._dns-sd._udp.local", type pointer, was encoded: the
\* header is 00 00 00 00 00 01 00 00 00 00 00 00 and the packet ends with the
\* type 00 0C and the class 80 01
C10_Witness ==
    /\ op = "encode_mdns"
    /\ args.questions = <<(<<ServicesName, RECORD_PTR>>)>>
    /\ ret.kind = "value" /\ Len(ret.value) = 46
    /\ SubSeq(ret.value, 1, 12) = <<0, 0, 0, 0, 0, 1, 0, 0, 0, 0, 0, 0>>
    /\ SubSeq(ret.value, 43, 46) = <<0, 12, 128, 1>>

----------------------------------------------------------------------------
(* Claims about the collect loop, checked under SpecListen.                *)

InQuery == lpc \in {"recv", "done", "raised", "hung"}

\* C5: the result list never holds more than limit entries, and no receive is
\* started once it holds limit entries.
C5_AtMostLimit ==
    /\ Len(results) <= limit
    /\ lpc = "recv" => Len(results) < limit

\* a query of limit 2 has returned 2 results before its deadline
C5_Witness ==
    /\ lpc = "done" /\ limit = 2 /\ Len(results) = 2
    /\ now - start < timeout

C8_NeverAborts == lpc \notin {"raised", "hung"}

----------------------------------------------------------------------------
(* Claims about the broadcast scan, checked under SpecBroadcast.           *)

\* C7: a broadcast scan consumed to its end stops no later than timeout after
\* the send, having yielded each received pair once, in arrival order.
C7_ScanWithinTimeout ==
    bpc = "done" => (bnow - bsent <= btimeout /\ yielded = arrived)

----------------------------------------------------------------------------
(* Further claims about the codec, checked under SpecCodec.                *)

\* the name has a label whose encoding is longer than n bytes
HasLabelOver(name, n) ==
    \E l \in {Split(name, Dot)} : \E i \in 1..Len(l) : Len(StrEncode(l[i])) > n

\* C11: encoding fails for a name with a label of more than 63 bytes:
\* encode_name, and encode_mdns for a question of such a name, end with an
\* error and produce no packet.
C11_LongLabelFails ==
    /\ (op = "encode_name" /\ HasLabelOver(args.name, 63)) => ret.kind = "raise"
    /\ (op = "encode_mdns"
          /\ \E i \in 1..Len(args.questions) : HasLabelOver(args.questions[i][1], 63))
         => ret.kind = "raise"

\* C15: decode_name terminates on every buffer and offset: it ends with a name
\* or with an error, whatever the pointers in the buffer target.
C15_DecodeTerminates == op = "decode_name" => ret.kind \in {"value", "raise"}

----------------------------------------------------------------------------
(* A further claim about the collect loop, checked under SpecListen.       *)

RECURSIVE MatchedData(_, _, _)
\* the data of the matching answers found in the datagrams h, in order
MatchedData(h, name, type) ==
    IF h = <<>> THEN <<>>
    ELSE LET r == extract_mdns_answer(DatagramBytes(Head(h)), name, type)
         IN  (IF r.kind = "value" THEN <<r.value>> ELSE <<>>)
             \o MatchedData(Tail(h), name, type)

\* C16: while a query runs and when it has returned, the result list holds
\* exactly one entry for each received datagram in which extract_mdns_answer
\* found a matching answer, that answer's data, in arrival order; the empty
\* string is such data.
C16_EveryMatchAppended ==
    lpc \in {"recv", "done"} => results = MatchedData(lhist, lname, ltype)

----------------------------------------------------------------------------
(* A claim about from_uri, checked under SpecUri.                          *)

\* C12: from_uri selects the backend by scheme: tty a serial line at the
\* path and baud, tcp a TCP socket and udp a UDP socket whatever the caller's
\* default, ip a TCP socket unless the default says datagram, vxi the
\* instrument-bus backend; a leading "//" of a socket address is stripped and a
\* numeric third component replaces the default baud or port; every other
\* scheme fails and opens no backend.
C12_SchemeTable ==
    (op = "from_uri" /\ args.uri.str) =>
      \E c \in {Split(args.uri.text, Colon)} :
        LET scheme == c[1]
            third == IF Len(c) > 2 THEN c[3] ELSE <<>>
            given == Len(c) >= 2 /\ (third = <<>> \/ IsDigits(third))
            number(default) == IF third = <<>> THEN default ELSE DecValue(third)
        IN  /\ (scheme = Tty /\ given)
               => ret = Value(SerialSCPI(c[2], number(args.baud)))
            /\ (scheme \in {Tcp, Udp, Ip} /\ given)
               => ret = Value(SocketSCPI(RemovePrefix(c[2], <<Slash, Slash>>),
                                         number(args.port),
                                         scheme = Tcp \/ (scheme = Ip /\ args.is_tcp)))
            /\ (scheme = Vxi /\ Len(c) = 2)
               => (ret.kind = "value"
                   /\ ret.value.class \notin {"SerialSCPI", "SocketSCPI"})
            /\ scheme \notin {Tty, Tcp, Udp, Ip, Vxi} => ret.kind = "raise"

----------------------------------------------------------------------------
(* A claim about find_devices, checked under SpecFind.                     *)

\* the reply is text of at least three lines: it has line 0 and line 2
WellFormedReply(data) ==
    \E d \in {BytesDecode(data)} : d.ok /\ Len(SplitLines(d.s)) >= 3

RECURSIVE DevicesIn(_, _)
\* the uris of the well-formed replies of h, in order
DevicesIn(h, prefix) ==
    IF h = <<>> THEN <<>>
    ELSE (IF WellFormedReply(Head(h))
          THEN <<prefix \o SplitLines(BytesDecode(Head(h)).s)[1] \o <<Colon>>
                  \o SplitLines(BytesDecode(Head(h)).s)[3]>>
          ELSE <<>>)
         \o DevicesIn(Tail(h), prefix)

\* C13: no reply aborts a device scan: the scan never ends with an error, a
\* reply that is no text or lacks line 0 or line 2 adds no result, and the
\* results are the uris of the well-formed replies taken so far, in order, the
\* ones after a malformed reply included.
C13_MalformedSkipped ==
    /\ fpc # "raised"
    /\ fpc \in {"scan", "done"} => fresults = DevicesIn(fhist, fprefix)

\* a scan took a reply that is no text and then one of three lines, and
\* returned the one uri "tcp://1:3"
C13_Witness ==
    /\ fpc = "done" /\ fmax = 1
    /\ fhist = <<(<<255>>), (<<49, 13, 10, 50, 13, 10, 51, 13, 10>>)>>
    /\ fresults = <<(TcpPrefix \o <<49, Colon, 51>>)>>

----------------------------------------------------------------------------
(* A claim about a socket session, checked under SpecSession.              *)

\* C14: every query on a session has sent its command and one newline, and a
\* query that returned has returned the text of the reply to its own command
\* (the oldest unread frame, when every earlier reply went to its own query),
\* less the delimiter and the white space around it: no reply is merged with
\* another or returned to a later query.
C14_FramedQuery ==
    \A i \in 1..Len(qlog) :
       /\ qlog[i].sent = qlog[i].command \o <<10>>
       /\ qlog[i].out.kind = "value" => qlog[i].out.value = Strip(qlog[i].reply)

----------------------------------------------------------------------------
(* A claim about the wave builder, checked under SpecWave.                 *)

\* C17: in every submit the basic-wave command BSWV is sent after every ARWV
\* and SRATE command of that submit.
C17_BasicWaveLast ==
    \A i, j \in 1..Len(wsent) :
       (wsent[i].key = "BSWV" /\ wsent[j].key \in {"ARWV", "SRATE"}) => j < i

----------------------------------------------------------------------------
(* A claim about the channel selection of IT6300, checked under            *)
(* SpecChannel.                                                            *)

\* C18: whenever the driver's selected_channel is a channel, it is the channel
\* selected in the instrument; and a per-channel get or set that went through
\* acted on its own channel.
C18_CacheCoherent ==
    /\ selected_channel # -1 => inst_channel = selected_channel
    /\ (clast.call \in {"set_voltage", "get_voltage"} /\ clast.exc = "")
         => clast.acted = clast.ch

====
